---- MODULE Spec2Model ----
(***************************************************************************)
(* FSQ: the filesystem-backed message queue of FileStorageQueue/fsq.h.     *)
(* One client thread (PushMessage, ForceProcessing, ~FSQ) and the worker   *)
(* thread (WorkerThread) share status_, the flags and the working          *)
(* directory.  Variables whose names start with h_ are history variables:  *)
(* they record what happened and never influence the program.              *)
(***************************************************************************)
EXTENDS Integers, Sequences, FiniteSets, TLC

\* ------------------------------------------------------------------ bounds
\* Number of PushMessage calls explored.
MaxPush == 2

\* How many PushMessage calls a run of the fair specification makes.
MaxFairPush == 1

\* ------------------------------------------------ configuration (MockConfig)
\* SimpleFinalizationPolicy<..., 20, 10 * 1000, 100, 60 * 1000>.
S0 == 20
A0 == 10000
S1 == 100
A1 == 60000

\* Width of the decimal timestamp inside a file name.
NameWidth == 20

\* The clock readings time_manager_.Now() may return, in any order.
Times == {1001, 1001 + A0}

\* The messages a client pushes.
Messages == {"foo", "0123456789abcde"}

\* fsq.SetSeparator("\n").
separator == "\n"

\* kTestDir.
working_directory_ == "build/"

\* ---------------------------------------------------------- file naming
RECURSIVE PadDecimal(_, _)
PadDecimal(t, w) ==
  IF w = 0 THEN <<>> ELSE Append(PadDecimal(t \div 10, w - 1), t % 10)

RECURSIVE DecimalValueOfFirst(_, _)
DecimalValueOfFirst(ds, n) ==
  IF n = 0 THEN 0 ELSE 10 * DecimalValueOfFirst(ds, n - 1) + ds[n]

DecimalValue(ds) == DecimalValueOfFirst(ds, Len(ds))

\* A file name is its three parts: prefix, digit string, suffix.
GenerateFileName(prefix, t) ==
  [prefix |-> prefix, digits |-> PadDecimal(t, NameWidth), suffix |-> ".bin"]

\* ParseFileName(s, &t): whether s matches the template of the given kind.
ParseFileName(prefix, s) ==
  /\ s.prefix = prefix
  /\ s.suffix = ".bin"
  /\ Len(s.digits) = NameWidth
  /\ \A i \in 1..Len(s.digits) : s.digits[i] \in 0..9

\* The timestamp ParseFileName stores through its out-parameter.
ParsedTimestamp(s) == DecimalValue(s.digits)

FinalizedPrefix == "finalized-"
CurrentPrefix == "current-"

\* ---------------------------------------------------------- file system
JoinPath(dir, name) == <<dir, name>>

\* A directory is a function from the full paths of its files to contents.
NoFiles == [p \in {} |-> ""]

FileExists(d, path) == path \in DOMAIN d

GetFileSize(d, path) == Len(d[path])

\* new OutputFile(path): the file exists afterwards.
OpenOutputFile(d, path) ==
  [p \in DOMAIN d \cup {path} |-> IF p \in DOMAIN d THEN d[p] ELSE ""]

WriteToFile(d, path, bytes) == [d EXCEPT ![path] = @ \o bytes]

RenameFile(d, from, to) ==
  IF from \in DOMAIN d
  THEN [p \in (DOMAIN d \ {from}) \cup {to} |-> IF p = to THEN d[from] ELSE d[p]]
  ELSE d

RemoveFile(d, path) == [p \in DOMAIN d \ {path} |-> d[p]]

\* ------------------------------------------------------- append strategy
MessageSizeInBytes(message) == Len(message) + Len(separator)

AppendToFile(d, path, message) == WriteToFile(d, path, message \o separator)

\* ----------------------------------------------------------- FileInfo
FileInfo(name, full_path_name, timestamp, size) ==
  [name |-> name, full_path_name |-> full_path_name,
   timestamp |-> timestamp, size |-> size]

RECURSIVE DigitsLessFrom(_, _, _)
DigitsLessFrom(a, b, i) ==
  /\ i <= Len(b)
  /\ \/ i > Len(a)
     \/ a[i] < b[i]
     \/ a[i] = b[i] /\ DigitsLessFrom(a, b, i + 1)

DigitsLess(a, b) == DigitsLessFrom(a, b, 1)

\* operator< of FileInfo: by timestamp, ties by name.
FileInfoLess(a, b) ==
  \/ a.timestamp < b.timestamp
  \/ a.timestamp = b.timestamp /\ DigitsLess(a.name.digits, b.name.digits)

\* A sort with the comparison turned around.
RECURSIVE SortFilesDescending(_)
SortFilesDescending(S) ==
  IF S = {} THEN <<>>
  ELSE LET m == CHOOSE x \in S : \A y \in S \ {x} : FileInfoLess(y, x)
       IN <<m>> \o SortFilesDescending(S \ {m})

\* std::sort of a set of distinct FileInfo.
RECURSIVE SortFiles(_)
SortFiles(S) ==
  IF S = {} THEN <<>>
  ELSE LET m == CHOOSE x \in S : \A y \in S \ {x} : FileInfoLess(x, y)
       IN <<m>> \o SortFiles(S \ {m})

\* ScanDir(f): the files of the working directory whose names f accepts.
ScanDir(d, prefix) ==
  SortFiles({FileInfo(p[2], p, ParsedTimestamp(p[2]), GetFileSize(d, p)) :
               p \in {q \in DOMAIN d : q[1] = working_directory_
                                        /\ ParseFileName(prefix, q[2])}})

RECURSIVE SumSizes(_)
SumSizes(q) == IF q = <<>> THEN 0 ELSE Head(q).size + SumSizes(Tail(q))

\* ------------------------------------------------------ finalize policy
ShouldFinalize(status, now) ==
  LET age == IF now >= status.appended_file_timestamp
             THEN now - status.appended_file_timestamp ELSE 0
  IN IF status.finalized.queue = <<>>
     THEN status.appended_file_size >= S0 \/ age >= A0
     ELSE status.appended_file_size >= S1 \/ age >= A1

\* ------------------------------------------------- the startup directory
PathOf(prefix, t) == JoinPath(working_directory_, GenerateFileName(prefix, t))

\* A stray file no naming strategy recognizes.
StrayPath ==
  JoinPath(working_directory_, [prefix |-> "notes", digits |-> <<>>, suffix |-> ".txt"])

MakeDirectory(entries) ==
  [p \in {e[1] : e \in entries} |-> (CHOOSE e \in entries : e[1] = p)[2]]

\* What earlier runs may have left in the working directory.
InitialDirectories ==
  { NoFiles,
    MakeDirectory({<<PathOf(FinalizedPrefix, 11001), "newer\n">>,
                   <<PathOf(FinalizedPrefix, 1000), "old\n">>,
                   <<PathOf(CurrentPrefix, 999), "left\n">>,
                   <<StrayPath, "x">>}) }

\* ------------------------------------------------------------------ state
VARIABLES
  disk,                          \* the file system
  status_,                       \* Status status_
  status_ready_,
  force_processing_,
  force_worker_thread_shutdown_,
  current_file_,                 \* TRUE iff the unique_ptr holds an open file
  current_file_name_,
  status_mutex_,                 \* "free", or "client" while a client call holds it
  client_pc,                     \* where the client thread is
  finalized_file_info,           \* local of FinalizeCurrentFile
  worker_pc,                     \* where WorkerThread is
  finalized_files_on_disk,       \* local of WorkerThread
  next_file,                     \* local of WorkerThread, NoFileInfo if null
  result,                        \* local of WorkerThread
  h_initial_disk,                \* history: the directory at construction
  h_pushed,                      \* history: accepted pushes, [message, now]
  h_open_start,                  \* history: index in h_pushed of the first
                                 \*   push into the open current file, or 0
  h_finalized,                   \* history: finalizations, in order
  h_calls,                       \* history: OnFileReady invocations, in order
  h_verdict,                     \* history: the last OnFileReady invocation
                                 \*   that returned: its file, its verdict,
                                 \*   whether ForceProcessing was called since
  caller_pc,                     \* where a second application thread is
  snapshot                       \* what its GetQueueStatus call returned

\* The object, its directory and the history of what happened to it.
fsq_vars ==
  <<disk, status_, status_ready_, force_processing_,
    force_worker_thread_shutdown_, current_file_, current_file_name_,
    status_mutex_, client_pc, finalized_file_info, worker_pc,
    finalized_files_on_disk, next_file, result,
    h_initial_disk, h_pushed, h_open_start, h_finalized, h_calls, h_verdict>>

vars == <<fsq_vars, caller_pc, snapshot>>

NoFileInfo == [name |-> "none"]
NoName == ""
NoSnapshot == [appended_file_size |-> -1]
NoResult == "none"
NoVerdict == [file |-> NoFileInfo, result |-> NoResult, forced |-> FALSE]

FileProcessingResult == {"Success", "SuccessAndMoved", "Unavailable", "FailureNeerRetry"}

\* The state right after the constructor has started the worker thread.
Init ==
  /\ disk \in InitialDirectories
  /\ status_ = [appended_file_size |-> 0, appended_file_timestamp |-> 0,
                finalized |-> [queue |-> <<>>, total_size |-> 0]]
  /\ status_ready_ = FALSE
  /\ force_processing_ = FALSE
  /\ force_worker_thread_shutdown_ = FALSE
  /\ current_file_ = FALSE
  /\ current_file_name_ = NoName
  /\ status_mutex_ = "free"
  /\ client_pc = "idle"
  /\ finalized_file_info = NoFileInfo
  /\ worker_pc = "scan"
  /\ finalized_files_on_disk = <<>>
  /\ next_file = NoFileInfo
  /\ result = NoResult
  /\ h_initial_disk = disk
  /\ h_pushed = <<>>
  /\ h_open_start = 0
  /\ h_finalized = <<>>
  /\ h_calls = <<>>
  /\ h_verdict = NoVerdict
  /\ caller_pc = "idle"
  /\ snapshot = NoSnapshot

\* ------------------------------------------------------ history helpers
\* The bytes that appending each of the pushes ps, in order, produces.
RECURSIVE Written(_)
Written(ps) ==
  IF ps = <<>> THEN "" ELSE Head(ps).message \o separator \o Written(Tail(ps))

\* The pushes that went into the open current file.
OpenPushes ==
  IF h_open_start = 0 THEN <<>> ELSE SubSeq(h_pushed, h_open_start, Len(h_pushed))

\* ------------------------------------------------------------- the client
\* EnsureCurrentFileIsOpen: the name of the current file afterwards.
EnsuredFileName(now) ==
  IF ~current_file_ THEN PathOf(CurrentPrefix, now) ELSE current_file_name_

\* The timestamp stamped at every push, not only when the file is created.
EnsuredTimestampOfLastPush(now) == now

\* EnsureCurrentFileIsOpen: status_.appended_file_timestamp afterwards.
EnsuredTimestamp(now) ==
  IF ~current_file_ THEN now ELSE status_.appended_file_timestamp

\* EnsureCurrentFileIsOpen: the directory afterwards.
EnsuredDisk(now) ==
  IF ~current_file_ THEN OpenOutputFile(disk, EnsuredFileName(now)) ELSE disk

\* The FileInfo with the timestamp and size arguments exchanged.
FinalizedFileInfoSwapped(status) ==
  LET finalized_file_name ==
        GenerateFileName(FinalizedPrefix, status.appended_file_timestamp)
  IN FileInfo(finalized_file_name,
              JoinPath(working_directory_, finalized_file_name),
              status.appended_file_size,
              status.appended_file_timestamp)

\* FinalizeCurrentFile: the FileInfo built from the status.
FinalizedFileInfo(status) ==
  LET finalized_file_name ==
        GenerateFileName(FinalizedPrefix, status.appended_file_timestamp)
  IN FileInfo(finalized_file_name,
              JoinPath(working_directory_, finalized_file_name),
              status.appended_file_timestamp,
              status.appended_file_size)

\* push_front in place of push_back.
PushFront(queue, file) == <<file>> \o queue

\* std::deque::push_back and pop_front.
PushBack(queue, file) == Append(queue, file)
PopFront(queue) == Tail(queue)

\* FinalizeCurrentFile up to and including the rename; the mutex is held.
FinalizeCurrentFile_Rename(d, status, pc) ==
  /\ current_file_' = FALSE
  /\ finalized_file_info' = FinalizedFileInfo(status)
  /\ disk' = RenameFile(d, current_file_name_', finalized_file_info'.full_path_name)
  /\ status_mutex_' = "client"
  /\ client_pc' = pc
  /\ h_finalized' = Append(h_finalized,
                           [file |-> finalized_file_info',
                            contents |-> Written(SubSeq(h_pushed', h_open_start',
                                                        Len(h_pushed')))])

\* How the RenameFile call of FinalizeCurrentFile may end: the file is
\* renamed, or it is not and RenameFile throws, or it is not and RenameFile
\* returns as if it were.
RenameOutcomes == {"renamed", "thrown", "ignored"}

\* FinalizeCurrentFile when RenameFile leaves the file where it is. If it
\* throws, the exception leaves the public call and unlocks the mutex;
\* otherwise FinalizeCurrentFile goes on to the push_back.
FinalizeCurrentFile_RenameFails(d, status, pc, outcome) ==
  /\ current_file_' = FALSE
  /\ disk' = d
  /\ IF outcome = "thrown"
     THEN UNCHANGED <<finalized_file_info, status_mutex_, client_pc>>
     ELSE /\ finalized_file_info' = FinalizedFileInfo(status)
          /\ status_mutex_' = "client"
          /\ client_pc' = pc
  /\ UNCHANGED h_finalized

\* FinalizeCurrentFile up to the return of RenameFile.
FinalizeCurrentFile_Attempt(d, status, pc, outcome) ==
  IF outcome = "renamed"
  THEN FinalizeCurrentFile_Rename(d, status, pc)
  ELSE FinalizeCurrentFile_RenameFails(d, status, pc, outcome)

\* A PushMessage that never looks at the shutdown flag.
PushMessage_RejectsNever == FALSE

\* PushMessage returns at once: the unlocked test of the shutdown flag.
PushMessage_Rejects == force_worker_thread_shutdown_

\* status_ once PushMessage has opened the file and appended the message.
AppendedStatus(message, now) ==
  [status_ EXCEPT !.appended_file_timestamp = EnsuredTimestamp(now),
                  !.appended_file_size = @ + MessageSizeInBytes(message)]

\* The body of PushMessage(message), with now the value time_manager_.Now()
\* returns and outcome the way a rename, if there is one, ends; the calling
\* thread is left open.
PushMessageBody(message, now, outcome) ==
  IF PushMessage_Rejects
  THEN UNCHANGED fsq_vars
  ELSE LET file_name == EnsuredFileName(now)
           appended == AppendToFile(EnsuredDisk(now), file_name, message)
           status == AppendedStatus(message, now)
       IN /\ h_pushed' = Append(h_pushed, [message |-> message, now |-> now])
          /\ h_open_start' = IF ~current_file_ THEN Len(h_pushed) + 1 ELSE h_open_start
          /\ current_file_name_' = file_name
          /\ status_' = status
          /\ IF ShouldFinalize(status, now)
             THEN FinalizeCurrentFile_Attempt(appended, status, "push_finalize",
                                              outcome)
             ELSE /\ current_file_' = TRUE
                  /\ disk' = appended
                  /\ UNCHANGED <<status_mutex_, client_pc, finalized_file_info,
                                 h_finalized>>
          /\ UNCHANGED <<status_ready_, force_processing_,
                         force_worker_thread_shutdown_, worker_pc,
                         finalized_files_on_disk, next_file, result,
                         h_initial_disk, h_calls, h_verdict>>

\* The body of PushMessage(message) when RenameFile renames.
PushMessageCall(message, now) == PushMessageBody(message, now, "renamed")

\* PushMessage(message) called by the thread that owns the object.
PushMessage(message, now) ==
  /\ client_pc = "idle"
  /\ Len(h_pushed) < MaxPush
  /\ PushMessageCall(message, now)
  /\ UNCHANGED <<caller_pc, snapshot>>

\* ForceProcessing(force_finalize_current_file), up to the rename if it
\* finalizes, whole otherwise, with outcome the way the rename ends; the
\* history of verdicts is left open.
ForceProcessingBody(force_finalize_current_file, outcome) ==
  /\ client_pc = "idle"
  /\ status_mutex_ = "free"
  /\ IF (force_finalize_current_file \/ status_.finalized.queue = <<>>) /\ current_file_
     THEN /\ UNCHANGED <<status_, force_processing_, current_file_name_,
                         h_pushed, h_open_start>>
          /\ FinalizeCurrentFile_Attempt(disk, status_, "force_finalize", outcome)
     ELSE /\ force_processing_' = TRUE
          /\ UNCHANGED <<disk, status_, current_file_, current_file_name_,
                         status_mutex_, client_pc, finalized_file_info,
                         h_pushed, h_open_start, h_finalized>>
  /\ UNCHANGED <<status_ready_, force_worker_thread_shutdown_, worker_pc,
                 finalized_files_on_disk, next_file, result,
                 h_initial_disk, h_calls>>

\* The same when RenameFile renames.
ForceProcessingCall(force_finalize_current_file) ==
  ForceProcessingBody(force_finalize_current_file, "renamed")

ForceProcessing(force_finalize_current_file) ==
  /\ ForceProcessingCall(force_finalize_current_file)
  /\ UNCHANGED <<h_verdict, caller_pc, snapshot>>

\* The same call, noted in the history of verdicts.
ForceProcessingNoted(force_finalize_current_file) ==
  /\ ForceProcessingCall(force_finalize_current_file)
  /\ h_verdict' = [h_verdict EXCEPT !.forced = TRUE]
  /\ UNCHANGED <<caller_pc, snapshot>>

\* The rest of FinalizeCurrentFile, and of the caller: the push_back, the
\* reset of the current file's accounting, the notification, the unlock.
FinalizeCurrentFile_Push ==
  /\ client_pc \in {"push_finalize", "force_finalize"}
  /\ status_' = [status_ EXCEPT
                   !.finalized.queue = PushBack(@, finalized_file_info),
                   !.appended_file_size = 0,
                   !.appended_file_timestamp = 0]
  /\ current_file_name_' = NoName
  /\ force_processing_' = IF client_pc = "force_finalize" THEN TRUE ELSE force_processing_
  /\ finalized_file_info' = NoFileInfo
  /\ status_mutex_' = "free"
  /\ client_pc' = "idle"
  /\ h_open_start' = 0
  /\ UNCHANGED <<disk, status_ready_, force_worker_thread_shutdown_, current_file_,
                 worker_pc, finalized_files_on_disk, next_file, result,
                 h_initial_disk, h_pushed, h_finalized, h_calls, h_verdict,
                 caller_pc, snapshot>>

\* ~FSQ up to the join, for a configuration whose
\* DetachProcessingThreadOnTermination() is false.
Destructor ==
  /\ client_pc = "idle"
  /\ status_mutex_ = "free"
  /\ force_worker_thread_shutdown_' = TRUE
  /\ current_file_' = FALSE
  /\ client_pc' = "joining"
  /\ UNCHANGED <<disk, status_, status_ready_, force_processing_, current_file_name_,
                 status_mutex_, finalized_file_info, worker_pc,
                 finalized_files_on_disk, next_file, result,
                 h_initial_disk, h_pushed, h_open_start, h_finalized, h_calls, h_verdict,
                 caller_pc, snapshot>>

\* worker_thread_.join() returns.
DestructorJoin ==
  /\ client_pc = "joining"
  /\ worker_pc = "done"
  /\ client_pc' = "destroyed"
  /\ UNCHANGED <<disk, status_, status_ready_, force_processing_,
                 force_worker_thread_shutdown_, current_file_, current_file_name_,
                 status_mutex_, finalized_file_info, worker_pc,
                 finalized_files_on_disk, next_file, result,
                 h_initial_disk, h_pushed, h_open_start, h_finalized, h_calls, h_verdict,
                 caller_pc, snapshot>>

\* ------------------------------------------------------------- the worker
\* Step 1/4, the scan: ScanDir for finalized names, without the mutex.
WorkerScan ==
  /\ worker_pc = "scan"
  /\ finalized_files_on_disk' = ScanDir(disk, FinalizedPrefix)
  /\ worker_pc' = "assign"
  /\ UNCHANGED <<disk, status_, status_ready_, force_processing_,
                 force_worker_thread_shutdown_, current_file_, current_file_name_,
                 status_mutex_, client_pc, finalized_file_info, next_file, result,
                 h_initial_disk, h_pushed, h_open_start, h_finalized, h_calls, h_verdict,
                 caller_pc, snapshot>>

\* Step 1/4, the assignment of the queue and of total_size, without the
\* mutex; step 2/4 scans for current names and discards the outcome.
WorkerAssign ==
  /\ worker_pc = "assign"
  /\ status_' = [status_ EXCEPT
                   !.finalized.queue = finalized_files_on_disk,
                   !.finalized.total_size = SumSizes(finalized_files_on_disk)]
  /\ worker_pc' = "ready"
  /\ UNCHANGED <<disk, status_ready_, force_processing_,
                 force_worker_thread_shutdown_, current_file_, current_file_name_,
                 status_mutex_, client_pc, finalized_file_info,
                 finalized_files_on_disk, next_file, result,
                 h_initial_disk, h_pushed, h_open_start, h_finalized, h_calls, h_verdict,
                 caller_pc, snapshot>>

\* Step 3/4: under the mutex, status_ready_ = true.
WorkerReady ==
  /\ worker_pc = "ready"
  /\ status_mutex_ = "free"
  /\ status_ready_' = TRUE
  /\ worker_pc' = "wait"
  /\ UNCHANGED <<disk, status_, force_processing_,
                 force_worker_thread_shutdown_, current_file_, current_file_name_,
                 status_mutex_, client_pc, finalized_file_info,
                 finalized_files_on_disk, next_file, result,
                 h_initial_disk, h_pushed, h_open_start, h_finalized, h_calls, h_verdict,
                 caller_pc, snapshot>>

\* A predicate that leaves the shutdown flag out.
predicateWithoutShutdown ==
  IF force_processing_ THEN TRUE
  ELSE IF status_.finalized.queue # <<>> THEN TRUE
  ELSE FALSE

\* The predicate the worker waits for on the condition variable.
predicate ==
  IF force_worker_thread_shutdown_ THEN TRUE
  ELSE IF force_processing_ THEN TRUE
  ELSE IF status_.finalized.queue # <<>> THEN TRUE
  ELSE FALSE

\* Step 4/4, the locked block at the top of the loop: wait for the
\* predicate, return on shutdown, copy the head of the queue if there is one.
WorkerWait ==
  /\ worker_pc = "wait"
  /\ status_mutex_ = "free"
  /\ predicate
  /\ IF force_worker_thread_shutdown_
     THEN /\ worker_pc' = "done"
          /\ UNCHANGED next_file
     ELSE IF status_.finalized.queue # <<>>
     THEN /\ next_file' = Head(status_.finalized.queue)
          /\ worker_pc' = "call"
     ELSE UNCHANGED <<next_file, worker_pc>>
  /\ UNCHANGED <<disk, status_, status_ready_, force_processing_,
                 force_worker_thread_shutdown_, current_file_, current_file_name_,
                 status_mutex_, client_pc, finalized_file_info,
                 finalized_files_on_disk, result,
                 h_initial_disk, h_pushed, h_open_start, h_finalized, h_calls, h_verdict,
                 caller_pc, snapshot>>

\* What the processor finds when it reads the file it is handed.
ReadFileAsString(d, path) == IF FileExists(d, path) THEN d[path] ELSE "<no file>"

\* processor_.OnFileReady(*next_file, now), outside the mutex: the
\* processor reads the file and returns r; a processor that answers
\* SuccessAndMoved has taken the file away.
OnFileReady(r) ==
  /\ worker_pc = "call"
  /\ result' = r
  /\ disk' = IF r = "SuccessAndMoved" /\ FileExists(disk, next_file.full_path_name)
             THEN RemoveFile(disk, next_file.full_path_name) ELSE disk
  /\ h_calls' = Append(h_calls,
                       [file |-> next_file,
                        contents |-> ReadFileAsString(disk, next_file.full_path_name)])
  /\ worker_pc' = "apply"
  /\ UNCHANGED <<status_, status_ready_, force_processing_,
                 force_worker_thread_shutdown_, current_file_, current_file_name_,
                 status_mutex_, client_pc, finalized_file_info,
                 finalized_files_on_disk, next_file,
                 h_initial_disk, h_pushed, h_open_start, h_finalized, h_verdict,
                 caller_pc, snapshot>>

\* The locked block after the call: the head is popped, whatever result is;
\* the history of verdicts is left open.
WorkerApplyResult ==
  /\ worker_pc = "apply"
  /\ status_mutex_ = "free"
  /\ status_' = [status_ EXCEPT !.finalized.queue = PopFront(@)]
  /\ next_file' = NoFileInfo
  /\ result' = NoResult
  /\ worker_pc' = "wait"
  /\ UNCHANGED <<disk, status_ready_, force_processing_,
                 force_worker_thread_shutdown_, current_file_, current_file_name_,
                 status_mutex_, client_pc, finalized_file_info,
                 finalized_files_on_disk,
                 h_initial_disk, h_pushed, h_open_start, h_finalized, h_calls>>

WorkerApply ==
  /\ WorkerApplyResult
  /\ UNCHANGED <<h_verdict, caller_pc, snapshot>>

\* The same block, noted in the history of verdicts.
WorkerApplyNoted ==
  /\ WorkerApplyResult
  /\ h_verdict' = [file |-> next_file, result |-> result, forced |-> FALSE]
  /\ UNCHANGED <<caller_pc, snapshot>>

Worker ==
  \/ WorkerScan
  \/ WorkerAssign
  \/ WorkerReady
  \/ WorkerWait
  \/ \E r \in FileProcessingResult : OnFileReady(r)
  \/ WorkerApply

Next ==
  \/ \E message \in Messages, now \in Times : PushMessage(message, now)
  \/ \E force_finalize_current_file \in BOOLEAN :
       ForceProcessing(force_finalize_current_file)
  \/ FinalizeCurrentFile_Push
  \/ Destructor
  \/ DestructorJoin
  \/ Worker

Spec == Init /\ [][Next]_vars

\* The same program with the verdicts and the ForceProcessing calls noted
\* in h_verdict.
NextNoted ==
  \/ \E message \in Messages, now \in Times : PushMessage(message, now)
  \/ \E force_finalize_current_file \in BOOLEAN :
       ForceProcessingNoted(force_finalize_current_file)
  \/ FinalizeCurrentFile_Push
  \/ Destructor
  \/ DestructorJoin
  \/ WorkerScan
  \/ WorkerAssign
  \/ WorkerReady
  \/ WorkerWait
  \/ \E r \in FileProcessingResult : OnFileReady(r)
  \/ WorkerApplyNoted

SpecNoted == Init /\ [][NextNoted]_vars

\* ================================================================ claims
Queue == status_.finalized.queue

NonDecreasing(ts) == \A i, j \in 1..Len(ts) : i < j => ts[i] <= ts[j]

CallTimestamps == [i \in 1..Len(h_calls) |-> h_calls[i].file.timestamp]
QueueTimestamps == [i \in 1..Len(Queue) |-> Queue[i].timestamp]
PushTimes == [i \in 1..Len(h_pushed) |-> h_pushed[i].now]

\* The finalized files the directory held at construction, oldest first.
StartupFiles == ScanDir(h_initial_disk, FinalizedPrefix)

\* No clock reading is below an earlier one, nor below the timestamp of a
\* finalized file that was in the directory at construction.
ClockOrdered ==
  /\ NonDecreasing(PushTimes)
  /\ \A i \in 1..Len(StartupFiles), j \in 1..Len(h_pushed) :
       StartupFiles[i].timestamp <= h_pushed[j].now

\* C1 as stated: whatever the clock readings, the OnFileReady invocations
\* carry non-decreasing file timestamps and the finalized queue is sorted by
\* timestamp.
C1_AnyClockNonDecreasing ==
  NonDecreasing(CallTimestamps) /\ NonDecreasing(QueueTimestamps)

\* C1 amended: when no clock reading is below an earlier reading or below
\* the timestamp of a finalized file found at startup, the OnFileReady
\* invocations carry non-decreasing file timestamps and the finalized queue
\* is sorted by timestamp.
C1_OrderedClockNonDecreasing ==
  ClockOrdered => NonDecreasing(CallTimestamps) /\ NonDecreasing(QueueTimestamps)

\* Two files finalized in this run under an ordered clock, with different
\* timestamps, have both been handed to the processor.
C1_Witness ==
  /\ ClockOrdered
  /\ Len(h_finalized) = 2
  /\ h_finalized[1].file.timestamp < h_finalized[2].file.timestamp
  /\ Len(h_calls) >= 2
  /\ h_calls[Len(h_calls)].file = h_finalized[2].file
  /\ h_calls[Len(h_calls) - 1].file = h_finalized[1].file

\* C2: while an OnFileReady invocation is in progress, and when the worker
\* comes back to apply its verdict, the file it was made for is the head of
\* the finalized queue; the single worker thread makes one invocation at a
\* time.
C2_DispatchedIsHead ==
  worker_pc \in {"call", "apply"} =>
    /\ Queue # <<>>
    /\ next_file = Head(Queue)

\* A file was finalized and queued behind the dispatched one while the
\* processor was running.
C2_Witness ==
  /\ worker_pc = "apply"
  /\ Len(Queue) >= 2
  /\ h_finalized # <<>>
  /\ Queue[Len(Queue)] = h_finalized[Len(h_finalized)].file
  /\ Queue[Len(Queue)] # next_file

\* C3: between operations, once the startup scan has filled the queue,
\* finalized.total_size is the sum of the sizes of the queued files.
C3_TotalSizeIsSum ==
  (client_pc = "idle" /\ worker_pc \notin {"scan", "assign"}) =>
    status_.finalized.total_size = SumSizes(Queue)

IsPrefix(a, b) == Len(a) <= Len(b) /\ a = SubSeq(b, 1, Len(a))

\* The contents the processor was handed, in delivery order.
DeliveredContents == [i \in 1..Len(h_calls) |-> h_calls[i].contents]

\* What was pushed into each file finalized in this run, in finalization
\* order: every message followed by the separator.
FinalizedContents == [i \in 1..Len(h_finalized) |-> h_finalized[i].contents]

\* C4: in a directory that was empty at construction, the files handed to
\* the processor hold, in delivery order, exactly the messages pushed, in
\* push order, each followed by the separator: nothing lost, duplicated or
\* reordered.
C4_DeliveredIsWhatWasPushed ==
  h_initial_disk = NoFiles => IsPrefix(DeliveredContents, FinalizedContents)

RECURSIVE SumCost(_)
SumCost(ps) == IF ps = <<>> THEN 0 ELSE Len(Head(ps).message) + 1 + SumCost(Tail(ps))

\* A PushMessage call that returns without finalizing.
PushWithoutFinalize ==
  h_pushed' # h_pushed /\ client_pc = "idle" /\ client_pc' = "idle"

\* C5: on a running queue, between client calls, an open current file shows
\* as current.size the summed cost of the messages pushed into it and as
\* current.timestamp the clock value of the first of those pushes; with no
\* open current file both are 0; a push that does not finalize leaves the
\* finalized queue and total size alone.
C5_CurrentFileAccounting ==
  /\ [](client_pc = "idle" =>
          IF current_file_
          THEN /\ OpenPushes # <<>>
               /\ status_.appended_file_size = SumCost(OpenPushes)
               /\ status_.appended_file_timestamp = OpenPushes[1].now
          ELSE /\ status_.appended_file_size = 0
               /\ status_.appended_file_timestamp = 0)
  /\ [][PushWithoutFinalize => status_'.finalized = status_.finalized]_vars

\* Two pushes at different clock values sit in the open current file.
C5_Witness ==
  /\ client_pc = "idle"
  /\ current_file_
  /\ Len(OpenPushes) = 2
  /\ OpenPushes[1].now # OpenPushes[2].now

\* The step that completes a finalization.
FinalizationCompletes ==
  client_pc \in {"push_finalize", "force_finalize"} /\ client_pc' = "idle"

\* C6: a finalization appends one FileInfo to the tail of the finalized
\* queue: its timestamp is the clock value of the first push into the
\* current file, its name parses as a finalized name with that timestamp,
\* its size is current.size; afterwards no current file is open and
\* current.size and current.timestamp are 0.
C6_FinalizationAppendsFileInfo ==
  [][FinalizationCompletes =>
       LET queue == status_'.finalized.queue
           file == queue[Len(queue)]
       IN /\ Len(queue) = Len(Queue) + 1
          /\ SubSeq(queue, 1, Len(Queue)) = Queue
          /\ file.timestamp = OpenPushes[1].now
          /\ ParseFileName(FinalizedPrefix, file.name)
          /\ ParsedTimestamp(file.name) = OpenPushes[1].now
          /\ file.size = status_.appended_file_size
          /\ file.size = SumCost(OpenPushes)
          /\ ~current_file_'
          /\ status_'.appended_file_size = 0
          /\ status_'.appended_file_timestamp = 0]_vars

\* A file first pushed to at one clock value was finalized by a push at a
\* later one, and is queued under the earlier value.
C6_Witness ==
  /\ client_pc = "idle"
  /\ ~current_file_
  /\ Len(h_pushed) = 2
  /\ h_pushed[1].now < h_pushed[2].now
  /\ Len(h_finalized) = 1
  /\ Queue # <<>>
  /\ Queue[Len(Queue)] = h_finalized[1].file
  /\ Queue[Len(Queue)].timestamp = h_pushed[1].now
  /\ Queue[Len(Queue)].size = SumCost(h_pushed)

\* The step in which the worker applies the verdict of an invocation.
VerdictApplied == worker_pc = "apply" /\ worker_pc' = "wait"

\* The step in which the processor is invoked and returns.
Invocation == worker_pc = "call" /\ worker_pc' = "apply"

InQueue(queue, file) ==
  \E i \in 1..Len(queue) : queue[i].full_path_name = file.full_path_name

\* C7: applying Success removes the file from disk and pops it from the head
\* of the queue, so that it is neither on disk nor in the queue afterwards;
\* applying SuccessAndMoved pops the head and leaves the disk alone.
C7_SuccessRemovesAndPops ==
  [][VerdictApplied =>
       /\ result = "Success" =>
            /\ Head(Queue) = next_file
            /\ status_'.finalized.queue = Tail(Queue)
            /\ ~FileExists(disk', next_file.full_path_name)
            /\ ~InQueue(status_'.finalized.queue, next_file)
       /\ result = "SuccessAndMoved" =>
            /\ Head(Queue) = next_file
            /\ status_'.finalized.queue = Tail(Queue)
            /\ disk' = disk]_vars

\* C8: applying Unavailable leaves the dispatched file at the head of the
\* queue, and the invocation that follows an Unavailable verdict comes
\* after a ForceProcessing call and is for the same file.
C8_UnavailableSuspends ==
  /\ [][(VerdictApplied /\ result = "Unavailable") =>
          /\ status_'.finalized.queue # <<>>
          /\ Head(status_'.finalized.queue) = next_file]_vars
  /\ [][(Invocation /\ h_verdict.result = "Unavailable") =>
          /\ h_verdict.forced
          /\ next_file = h_verdict.file]_vars

\* C9: applying the retry verdict leaves the dispatched file at the head of
\* the queue, and the invocation that follows a retry verdict is for the
\* same file, so that no successor is delivered before a Success.
C9_RetryKeepsHead ==
  /\ [][(VerdictApplied /\ result = "FailureNeerRetry") =>
          /\ status_'.finalized.queue # <<>>
          /\ Head(status_'.finalized.queue) = next_file]_vars
  /\ [][(Invocation /\ h_verdict.result = "FailureNeerRetry") =>
          next_file = h_verdict.file]_vars

Range(q) == {q[i] : i \in 1..Len(q)}

\* The files that have entered the finalized queue: those the startup scan
\* assigned to it and those a completed finalization pushed onto it.
EnteredQueue ==
  (IF worker_pc \in {"scan", "assign"} THEN {} ELSE Range(finalized_files_on_disk))
  \cup
  {h_finalized[i].file :
     i \in {j \in 1..Len(h_finalized) :
              j < Len(h_finalized) \/ client_pc \notin {"push_finalize", "force_finalize"}}}

\* C10: a file that has entered the finalized queue is passed to
\* OnFileReady; nothing puts a file back into the queue, so at every moment
\* such a file has been passed to OnFileReady already or is still queued.
C10_QueuedFilesReachProcessor ==
  \A file \in EnteredQueue :
    \/ file \in Range(Queue)
    \/ \E i \in 1..Len(h_calls) : h_calls[i].file = file

\* The ceilings of the configured purge policy: bytes in total, files.
B_max == 1000
N_max == 3

\* No client call is under way and the worker has assigned the startup scan.
Settled == client_pc = "idle" /\ worker_pc \notin {"scan", "assign"}

\* C11: after every finalization and after the startup scan the purge
\* policy holds: the queue has at most N_max files and at most B_max bytes.
C11_PurgePolicyHolds ==
  Settled => /\ Len(Queue) <= N_max
             /\ SumSizes(Queue) <= B_max
             /\ status_.finalized.total_size <= B_max

\* The push that this step accepts.
AcceptedPush == h_pushed'[Len(h_pushed')]

\* This step accepts a push while the open current file, with nothing
\* queued, has reached the age threshold A0.
PushOntoAgedFile ==
  /\ Len(h_pushed') = Len(h_pushed) + 1
  /\ current_file_
  /\ Queue = <<>>
  /\ AcceptedPush.now - status_.appended_file_timestamp >= A0

\* C12: a push that finds the open current file aged A0 or more finalizes
\* that file without the new message, and the new message opens a fresh
\* current file stamped with the time of the push.
C12_AgedFileRollsBeforeWrite ==
  [][PushOntoAgedFile =>
       /\ Len(h_finalized') = Len(h_finalized) + 1
       /\ h_finalized'[Len(h_finalized')].contents = Written(OpenPushes)
       /\ current_file_'
       /\ status_'.appended_file_timestamp = AcceptedPush.now
       /\ status_'.appended_file_size = MessageSizeInBytes(AcceptedPush.message)]_vars

\* ------------------------------------------- a push during the shutdown
\* PushMessage(message) called by a second thread while ~FSQ, having set
\* the shutdown flag, waits for the worker.
PushMessageLate(message, now) ==
  /\ caller_pc = "idle"
  /\ client_pc = "joining"
  /\ Len(h_pushed) < MaxPush
  /\ PushMessageCall(message, now)
  /\ caller_pc' = "pushed"
  /\ UNCHANGED snapshot

\* The second thread goes on after its call.
CallerReturn ==
  /\ caller_pc = "pushed"
  /\ caller_pc' = "idle"
  /\ UNCHANGED <<fsq_vars, snapshot>>

NextLatePush ==
  \/ Next
  \/ \E message \in Messages, now \in Times : PushMessageLate(message, now)
  \/ CallerReturn

SpecLatePush == Init /\ [][NextLatePush]_vars

\* This step is a whole PushMessage call made with the shutdown flag set.
LatePush ==
  /\ force_worker_thread_shutdown_
  /\ caller_pc = "idle"
  /\ caller_pc' = "pushed"

\* C13: a PushMessage call made once the shutdown flag is set has no
\* effect: no file is written or created, the current file's size,
\* timestamp and name keep their values, nothing is finalized or queued.
C13_PushAfterShutdownHasNoEffect ==
  [][LatePush => UNCHANGED <<disk, status_, current_file_, current_file_name_,
                             status_mutex_, client_pc, finalized_file_info,
                             h_pushed, h_finalized>>]_vars

\* A rejected push has returned, and there was an accepted one before it
\* whose file is on disk.
C13_Witness ==
  /\ caller_pc = "pushed"
  /\ force_worker_thread_shutdown_
  /\ Len(h_pushed) = 1
  /\ FileExists(disk, PathOf(CurrentPrefix, h_pushed[1].now))

\* --------------------------------------- GetQueueStatus on a second thread
\* GetQueueStatus(), called before ~FSQ: the lock, the test of status_ready_
\* and either the copy of status_ or the wait.
GetQueueStatusCall ==
  /\ caller_pc = "idle"
  /\ ~force_worker_thread_shutdown_
  /\ status_mutex_ = "free"
  /\ IF status_ready_
     THEN /\ snapshot' = status_
          /\ caller_pc' = "status_returned"
     ELSE /\ caller_pc' = "status_wait"
          /\ UNCHANGED snapshot
  /\ UNCHANGED fsq_vars

\* The wait returns with the mutex and the loop finds status_ready_ set:
\* GetQueueStatus returns the copy of status_.
GetQueueStatusWake ==
  /\ caller_pc = "status_wait"
  /\ status_mutex_ = "free"
  /\ status_ready_
  /\ snapshot' = status_
  /\ caller_pc' = "status_returned"
  /\ UNCHANGED fsq_vars

NextStatus ==
  \/ Next
  \/ GetQueueStatusCall
  \/ GetQueueStatusWake

SpecStatus == Init /\ [][NextStatus]_vars

\* C14: GetQueueStatus never returns before status_ready_ is set,
\* status_ready_ once set is never cleared, and a caller that waits in
\* GetQueueStatus while shutdown is requested never gets a snapshot back
\* (the call fails instead).
C14_StatusWaitsAndFailsOnShutdown ==
  [][/\ (caller_pc # "status_returned" /\ caller_pc' = "status_returned")
          => status_ready_
     /\ status_ready_ => status_ready_'
     /\ (caller_pc = "status_wait" /\ force_worker_thread_shutdown_)
          => caller_pc' # "status_returned"]_vars

\* The files of the working directory that carry a current-pattern name.
current_files_on_disk == ScanDir(disk, CurrentPrefix)

\* C15: once status_ready_ is set, the working directory holds at most one
\* file with a current-pattern name.
C15_AtMostOneCurrentFile ==
  status_ready_ => Len(current_files_on_disk) <= 1

\* The current-pattern files the directory held at construction.
StartupCurrentFiles == ScanDir(h_initial_disk, CurrentPrefix)

\* The file is the live current file, with its size and timestamp on disk.
Adopted(file) ==
  /\ current_file_
  /\ current_file_name_ = file.full_path_name
  /\ status_.appended_file_timestamp = file.timestamp
  /\ status_.appended_file_size >= file.size

\* The file went to its finalized name and into the queue, or on to the
\* processor.
FinalizedAndEnqueued(file) ==
  LET path == PathOf(FinalizedPrefix, file.timestamp)
  IN \/ \E i \in 1..Len(Queue) : Queue[i].full_path_name = path
     \/ \E i \in 1..Len(h_calls) : h_calls[i].file.full_path_name = path

\* C16: a current file left on disk by the previous run is recognized at
\* startup: once status_ready_ is set it is the live current file or it has
\* been finalized and enqueued, so that its messages reach the processor.
C16_LeftoverCurrentFileIsRecovered ==
  status_ready_ =>
    \A i \in 1..Len(StartupCurrentFiles) :
      \/ Adopted(StartupCurrentFiles[i])
      \/ FinalizedAndEnqueued(StartupCurrentFiles[i])

\* ------------------------------------------------ a rename that fails
FailedOutcomes == RenameOutcomes \ {"renamed"}

\* PushMessage(message) reaches FinalizeCurrentFile.
PushMessageFinalizes(message, now) ==
  /\ ~PushMessage_Rejects
  /\ ShouldFinalize(AppendedStatus(message, now), now)

\* ForceProcessing(force_finalize_current_file) reaches the rename.
ForceProcessingFinalizes(force_finalize_current_file) ==
  (force_finalize_current_file \/ status_.finalized.queue = <<>>) /\ current_file_

\* A PushMessage whose finalization finds RenameFile failing.
PushMessageRenameFails(message, now, outcome) ==
  /\ client_pc = "idle"
  /\ Len(h_pushed) < MaxPush
  /\ PushMessageFinalizes(message, now)
  /\ PushMessageBody(message, now, outcome)
  /\ UNCHANGED <<caller_pc, snapshot>>

\* A ForceProcessing whose finalization finds RenameFile failing.
ForceProcessingRenameFails(force_finalize_current_file, outcome) ==
  /\ ForceProcessingFinalizes(force_finalize_current_file)
  /\ ForceProcessingBody(force_finalize_current_file, outcome)
  /\ UNCHANGED <<h_verdict, caller_pc, snapshot>>

NextRenameFails ==
  \/ Next
  \/ \E message \in Messages, now \in Times, outcome \in FailedOutcomes :
       PushMessageRenameFails(message, now, outcome)
  \/ \E force_finalize_current_file \in BOOLEAN, outcome \in FailedOutcomes :
       ForceProcessingRenameFails(force_finalize_current_file, outcome)

SpecRenameFails == Init /\ [][NextRenameFails]_vars

\* This step is a finalization whose rename fails.
RenameFailsStep ==
  \/ \E message \in Messages, now \in Times, outcome \in FailedOutcomes :
       PushMessageRenameFails(message, now, outcome)
  \/ \E force_finalize_current_file \in BOOLEAN, outcome \in FailedOutcomes :
       ForceProcessingRenameFails(force_finalize_current_file, outcome)

\* This step is the push_back of FinalizeCurrentFile.
PushBackStep ==
  /\ client_pc \in {"push_finalize", "force_finalize"}
  /\ client_pc' = "idle"

\* C17: a finalization whose rename fails leaves the file open under its
\* current name, with the current file's timestamp, size and path and the
\* queue as they were; and a FileInfo is pushed only once the file has left
\* its current name for the finalized one.
C17_FailedRenameLeavesStateUntouched ==
  [][/\ RenameFailsStep =>
          /\ current_file_'
          /\ current_file_name_' = current_file_name_
          /\ FileExists(disk', current_file_name_')
          /\ status_'.appended_file_timestamp = status_.appended_file_timestamp
          /\ status_'.appended_file_size >= status_.appended_file_size
          /\ status_'.finalized = status_.finalized
     /\ PushBackStep =>
          /\ ~FileExists(disk, current_file_name_)
          /\ FileExists(disk, finalized_file_info.full_path_name)]_vars

\* ------------------------------------------------------------- shutdown
\* The worker thread keeps running while it has a step to take (a call of
\* OnFileReady returns), and join() returns once the worker has ended.
\* The pushes are bounded by MaxFairPush.
NextFair ==
  \/ \E message \in Messages, now \in Times :
       Len(h_pushed) < MaxFairPush /\ PushMessage(message, now)
  \/ \E force_finalize_current_file \in BOOLEAN :
       ForceProcessing(force_finalize_current_file)
  \/ FinalizeCurrentFile_Push
  \/ Destructor
  \/ DestructorJoin
  \/ Worker

SpecFair ==
  Init /\ [][NextFair]_vars /\ WF_vars(Worker) /\ WF_vars(DestructorJoin)

\* C18: once the shutdown flag is set the worker ends, wherever it was, and
\* the joining destructor returns; a worker that has seen the flag makes no
\* further OnFileReady call; from the flag on nothing is finalized and no
\* current-pattern file is renamed.
C18_ShutdownTerminates ==
  /\ force_worker_thread_shutdown_ ~> worker_pc = "done"
  /\ force_worker_thread_shutdown_ ~> client_pc = "destroyed"
  /\ [][worker_pc = "done" => (worker_pc' = "done" /\ h_calls' = h_calls)]_vars
  /\ [][force_worker_thread_shutdown_' =>
          /\ h_finalized' = h_finalized
          /\ ScanDir(disk', CurrentPrefix) = ScanDir(disk, CurrentPrefix)]_vars

\* The destructor has returned after a shutdown that found a current file
\* open and the worker inside OnFileReady.
C18_Witness ==
  /\ client_pc = "destroyed"
  /\ worker_pc = "done"
  /\ current_file_name_ # NoName
  /\ FileExists(disk, current_file_name_)
  /\ h_calls # <<>>

\* How many entries of the queue name the path.
RECURSIVE Occurrences(_, _)
Occurrences(queue, path) ==
  IF queue = <<>> THEN 0
  ELSE (IF Head(queue).full_path_name = path THEN 1 ELSE 0)
       + Occurrences(Tail(queue), path)

\* The finalized files on disk that the processor has not been handed.
UndeliveredOnDisk ==
  {path \in DOMAIN disk :
     /\ path[1] = working_directory_
     /\ ParseFileName(FinalizedPrefix, path[2])
     /\ \A i \in 1..Len(h_calls) : h_calls[i].file.full_path_name # path}

\* C19: once the worker has assigned its startup scan and no finalization
\* is under way, every finalized file that is on disk and has not been
\* delivered is in the queue exactly once, whatever finalizations ran
\* alongside the scan.
C19_FinalizedFilesQueuedExactlyOnce ==
  Settled => \A path \in UndeliveredOnDisk : Occurrences(Queue, path) = 1

\* What status_mutex_ is there to guard.
GuardedState ==
  <<status_, status_ready_, force_processing_, force_worker_thread_shutdown_>>

\* C20: the queue status and the three flags are read and written only
\* with status_mutex_ held: while a client call holds the mutex, a step of
\* another thread changes none of them.
C20_GuardedStateChangesUnderMutex ==
  [][(status_mutex_ = "client" /\ client_pc' = client_pc)
       => GuardedState' = GuardedState]_vars

\* ------------------------------------------- a pass that finds no file
\* The locked block at the top of the loop when the predicate holds, no
\* shutdown is requested and the queue is empty: next_file stays null.
WorkerWaitNoFile ==
  /\ worker_pc = "wait"
  /\ status_mutex_ = "free"
  /\ predicate
  /\ ~force_worker_thread_shutdown_
  /\ status_.finalized.queue = <<>>
  /\ worker_pc' = "no_file"
  /\ UNCHANGED <<disk, status_, status_ready_, force_processing_,
                 force_worker_thread_shutdown_, current_file_, current_file_name_,
                 status_mutex_, client_pc, finalized_file_info,
                 finalized_files_on_disk, next_file, result,
                 h_initial_disk, h_pushed, h_open_start, h_finalized, h_calls, h_verdict,
                 caller_pc, snapshot>>

\* if (next_file) fails and the loop goes back to its top.
WorkerLoop ==
  /\ worker_pc = "no_file"
  /\ worker_pc' = "wait"
  /\ UNCHANGED <<disk, status_, status_ready_, force_processing_,
                 force_worker_thread_shutdown_, current_file_, current_file_name_,
                 status_mutex_, client_pc, finalized_file_info,
                 finalized_files_on_disk, next_file, result,
                 h_initial_disk, h_pushed, h_open_start, h_finalized, h_calls, h_verdict,
                 caller_pc, snapshot>>

NextLoop ==
  \/ Next
  \/ WorkerWaitNoFile
  \/ WorkerLoop

SpecLoop == Init /\ [][NextLoop]_vars

\* C21: the worker does not poll: a pass through the top of the loop that
\* finds the queue empty and no shutdown requested consumes the
\* ForceProcessing request, so that the predicate does not stay true and
\* the worker is blocked again after its pass.
C21_ForceProcessingIsConsumed ==
  [][(worker_pc = "wait" /\ worker_pc' = "no_file") => ~force_processing_']_vars

\* ------------------------- a producer and a ForceProcessing on two threads
\* The message and the clock reading of the PushMessage call under way.
PushedMessage == h_pushed[Len(h_pushed)].message
PushedNow == h_pushed[Len(h_pushed)].now

\* PushMessage(message) on the producer thread, up to the return of
\* EnsureCurrentFileIsOpen; no mutex is taken.
PushMessage_Ensure(message, now) ==
  /\ client_pc = "idle"
  /\ Len(h_pushed) < MaxPush
  /\ ~PushMessage_Rejects
  /\ h_pushed' = Append(h_pushed, [message |-> message, now |-> now])
  /\ h_open_start' = IF ~current_file_ THEN Len(h_pushed) + 1 ELSE h_open_start
  /\ current_file_name_' = EnsuredFileName(now)
  /\ current_file_' = TRUE
  /\ disk' = EnsuredDisk(now)
  /\ status_' = [status_ EXCEPT !.appended_file_timestamp = EnsuredTimestamp(now)]
  /\ client_pc' = "push_ensured"
  /\ UNCHANGED <<status_ready_, force_processing_, force_worker_thread_shutdown_,
                 status_mutex_, finalized_file_info, worker_pc,
                 finalized_files_on_disk, next_file, result,
                 h_initial_disk, h_finalized, h_calls, h_verdict,
                 caller_pc, snapshot>>

\* The rest of PushMessage when assert(current_file_) holds: the append,
\* the size update, ShouldFinalize and FinalizeCurrentFile up to the rename.
PushMessage_Append ==
  /\ client_pc = "push_ensured"
  /\ current_file_
  /\ LET appended == AppendToFile(disk, current_file_name_, PushedMessage)
         status == [status_ EXCEPT
                      !.appended_file_size = @ + MessageSizeInBytes(PushedMessage)]
     IN /\ status_' = status
        /\ UNCHANGED <<current_file_name_, h_pushed, h_open_start>>
        /\ IF ShouldFinalize(status, PushedNow)
           THEN /\ status_mutex_ = "free"
                /\ FinalizeCurrentFile_Rename(appended, status, "push_finalize")
           ELSE /\ disk' = appended
                /\ client_pc' = "idle"
                /\ UNCHANGED <<current_file_, status_mutex_, finalized_file_info,
                               h_finalized>>
  /\ UNCHANGED <<status_ready_, force_processing_, force_worker_thread_shutdown_,
                 worker_pc, finalized_files_on_disk, next_file, result,
                 h_initial_disk, h_calls, h_verdict, caller_pc, snapshot>>

\* assert(current_file_) fails: the process is aborted.
PushMessage_AssertFails ==
  /\ client_pc = "push_ensured"
  /\ ~current_file_
  /\ client_pc' = "aborted"
  /\ UNCHANGED <<disk, status_, status_ready_, force_processing_,
                 force_worker_thread_shutdown_, current_file_, current_file_name_,
                 status_mutex_, finalized_file_info, worker_pc,
                 finalized_files_on_disk, next_file, result,
                 h_initial_disk, h_pushed, h_open_start, h_finalized, h_calls, h_verdict,
                 caller_pc, snapshot>>

\* ForceProcessing(force_finalize_current_file) called by a second thread,
\* from the lock to the unlock.
ForceProcessingByCaller(force_finalize_current_file) ==
  /\ caller_pc = "idle"
  /\ client_pc # "aborted"
  /\ ~force_worker_thread_shutdown_
  /\ status_mutex_ = "free"
  /\ IF (force_finalize_current_file \/ status_.finalized.queue = <<>>) /\ current_file_
     THEN /\ current_file_' = FALSE
          /\ disk' = RenameFile(disk, current_file_name_,
                                FinalizedFileInfo(status_).full_path_name)
          /\ status_' = [status_ EXCEPT
                           !.finalized.queue = PushBack(@, FinalizedFileInfo(status_)),
                           !.appended_file_size = 0,
                           !.appended_file_timestamp = 0]
          /\ current_file_name_' = NoName
          /\ h_open_start' = 0
          /\ h_finalized' = Append(h_finalized,
                                   [file |-> FinalizedFileInfo(status_),
                                    contents |-> disk[current_file_name_]])
     ELSE UNCHANGED <<disk, status_, current_file_, current_file_name_,
                      h_open_start, h_finalized>>
  /\ force_processing_' = TRUE
  /\ UNCHANGED <<status_ready_, force_worker_thread_shutdown_, status_mutex_,
                 client_pc, finalized_file_info, worker_pc,
                 finalized_files_on_disk, next_file, result,
                 h_initial_disk, h_pushed, h_calls, h_verdict, caller_pc, snapshot>>

NextTwoThreads ==
  \/ \E message \in Messages, now \in Times : PushMessage_Ensure(message, now)
  \/ PushMessage_Append
  \/ PushMessage_AssertFails
  \/ \E force_finalize_current_file \in BOOLEAN :
       ForceProcessingByCaller(force_finalize_current_file)
  \/ FinalizeCurrentFile_Push
  \/ Destructor
  \/ DestructorJoin
  \/ Worker

SpecTwoThreads == Init /\ [][NextTwoThreads]_vars

\* C22: with PushMessage on one thread and ForceProcessing on another,
\* between EnsureCurrentFileIsOpen and the append the current file stays
\* open under its current name, so that assert(current_file_) holds.
C22_CurrentFileStaysOpenForAppend ==
  /\ client_pc = "push_ensured" => /\ current_file_
                                   /\ FileExists(disk, current_file_name_)
  /\ client_pc # "aborted"

====
